---- MODULE Spec2Model ----
(***************************************************************************)
(* Model of src/app.py: the Etherscan USDT reconciliation report.          *)
(*                                                                         *)
(* One script run is modelled: configuration lookup (get_api_key,          *)
(* get_chain_id), the sidebar inputs, the page loop of                     *)
(* fetch_usdt_transfers with _transform_and_filter, and then the report    *)
(* (generate_excel_report) and the two chart builders.                     *)
(*                                                                         *)
(* Python's int is unbounded and its float is IEEE-754 binary64; both are  *)
(* modelled exactly: an int is a little-endian sequence of limbs, a float  *)
(* is a 53-bit significand with a binary exponent, and int / int is the    *)
(* correctly rounded quotient.                                             *)
(***************************************************************************)
EXTENDS Integers, Sequences, FiniteSets, TLC

(***************************************************************************)
(* Python int: arbitrary precision naturals (the raw values are            *)
(* non-negative), little-endian limbs in base BASE, no leading zero limb.  *)
(***************************************************************************)
BASE == 10000

BigZero == <<>>

RECURSIVE BigStrip(_)
BigStrip(a) ==
  IF a = <<>> THEN <<>>
  ELSE IF a[Len(a)] = 0 THEN BigStrip(SubSeq(a, 1, Len(a) - 1))
  ELSE a

RECURSIVE BigFromInt(_)
BigFromInt(n) ==
  IF n = 0 THEN <<>> ELSE <<n % BASE>> \o BigFromInt(n \div BASE)

\* a * k + c for a small k and carry c
RECURSIVE BigMulSmall(_, _, _)
BigMulSmall(a, k, c) ==
  IF a = <<>> THEN BigFromInt(c)
  ELSE LET t == a[1] * k + c
       IN  <<t % BASE>> \o BigMulSmall(Tail(a), k, t \div BASE)

BigDouble(a) == BigStrip(BigMulSmall(a, 2, 0))

RECURSIVE BigCmpFrom(_, _, _)
BigCmpFrom(a, b, i) ==
  IF i = 0 THEN 0
  ELSE IF a[i] < b[i] THEN -1
  ELSE IF a[i] > b[i] THEN 1
  ELSE BigCmpFrom(a, b, i - 1)

\* -1, 0 or 1 as a < b, a = b, a > b
BigCmp(a, b) ==
  IF Len(a) < Len(b) THEN -1
  ELSE IF Len(a) > Len(b) THEN 1
  ELSE BigCmpFrom(a, b, Len(a))

\* a + b + c for Len(a) >= Len(b) and a carry c
RECURSIVE BigAddC(_, _, _)
BigAddC(a, b, c) ==
  IF a = <<>> THEN BigFromInt(c)
  ELSE LET y == IF b = <<>> THEN 0 ELSE b[1]
           t == a[1] + y + c
       IN  <<t % BASE>> \o BigAddC(Tail(a), IF b = <<>> THEN <<>> ELSE Tail(b), t \div BASE)

BigAdd(a, b) ==
  IF Len(a) >= Len(b) THEN BigStrip(BigAddC(a, b, 0)) ELSE BigStrip(BigAddC(b, a, 0))

\* a - b for a >= b
RECURSIVE BigSubB(_, _, _)
BigSubB(a, b, borrow) ==
  IF a = <<>> THEN <<>>
  ELSE LET y == IF b = <<>> THEN 0 ELSE b[1]
           t == a[1] - y - borrow
       IN  IF t < 0
           THEN <<t + BASE>> \o BigSubB(Tail(a), IF b = <<>> THEN <<>> ELSE Tail(b), 1)
           ELSE <<t>> \o BigSubB(Tail(a), IF b = <<>> THEN <<>> ELSE Tail(b), 0)

BigSub(a, b) == BigStrip(BigSubB(a, b, 0))

RECURSIVE BigMul(_, _)
BigMul(a, b) ==
  IF b = <<>> THEN <<>>
  ELSE BigAdd(BigStrip(BigMulSmall(a, b[1], 0)),
              LET rest == BigMul(a, Tail(b))
              IN  IF rest = <<>> THEN <<>> ELSE <<0>> \o rest)

RECURSIVE BigPow10(_)
BigPow10(k) ==
  IF k = 0 THEN BigFromInt(1) ELSE BigStrip(BigMulSmall(BigPow10(k - 1), 10, 0))

\* a * 2^k
RECURSIVE BigTimesPow2(_, _)
BigTimesPow2(a, k) ==
  IF a = <<>> THEN <<>>
  ELSE IF k >= 8 THEN BigTimesPow2(BigStrip(BigMulSmall(a, 256, 0)), k - 8)
  ELSE IF k > 0 THEN BigTimesPow2(BigDouble(a), k - 1)
  ELSE a

(***************************************************************************)
(* int(s) for a decimal-integer string s, a sequence of digit characters.  *)
(***************************************************************************)
Digits == <<"0", "1", "2", "3", "4", "5", "6", "7", "8", "9">>

DigitVal(c) == (CHOOSE i \in 1..10 : Digits[i] = c) - 1

IsDigit(c) == \E i \in 1..10 : Digits[i] = c

\* the number written by the digits s
RECURSIVE ParseNat(_)
ParseNat(s) ==
  IF s = <<>> THEN <<>>
  ELSE BigStrip(BigMulSmall(ParseNat(SubSeq(s, 1, Len(s) - 1)), 10, DigitVal(s[Len(s)])))

int(s) == ParseNat(s)

(***************************************************************************)
(* Python float: binary64.  man is the 53-bit significand, most            *)
(* significant bit first; the value is the sum of man[i] * 2^(exp-i+1).    *)
(* Zero has an all-zero significand.                                       *)
(***************************************************************************)
MANT_DIG == 53

RECURSIVE Zeros(_)
Zeros(k) ==
  IF k = 0 THEN <<>>
  ELSE LET h == Zeros(k \div 2)
       IN  IF k % 2 = 0 THEN h \o h ELSE h \o h \o <<0>>

FloatZero == [man |-> Zeros(MANT_DIG), exp |-> 0]

IsZero(x) == x.man[1] = 0

\* n, d scaled by powers of two until d <= n < 2d; e is the binary exponent
\* (steps of 2^8 first, then single doublings)
RECURSIVE Scale(_, _, _)
Scale(n, d, e) ==
  IF BigCmp(BigStrip(BigMulSmall(n, 256, 0)), d) < 0
    THEN Scale(BigStrip(BigMulSmall(n, 256, 0)), d, e - 8)
  ELSE IF BigCmp(n, d) < 0 THEN Scale(BigDouble(n), d, e - 1)
  ELSE IF BigCmp(n, BigStrip(BigMulSmall(d, 256, 0))) >= 0
    THEN Scale(n, BigStrip(BigMulSmall(d, 256, 0)), e + 8)
  ELSE IF BigCmp(n, BigDouble(d)) >= 0 THEN Scale(n, BigDouble(d), e + 1)
  ELSE [n |-> n, d |-> d, e |-> e]

\* one step of binary long division: the next quotient bit of q.rem / d
\* (q.rem < 2d); the new rem is twice the remainder left after that bit
DivStep(q, d) ==
  LET b  == IF BigCmp(q.rem, d) >= 0 THEN 1 ELSE 0
      r1 == IF b = 1 THEN BigSub(q.rem, d) ELSE q.rem
  IN  [bits |-> Append(q.bits, b), rem |-> BigDouble(r1)]

DivStep4(q, d) == DivStep(DivStep(DivStep(DivStep(q, d), d), d), d)

\* quotient bits until there are k of them
RECURSIVE DivLoop(_, _, _)
DivLoop(q, d, k) ==
  IF Len(q.bits) + 4 <= k THEN DivLoop(DivStep4(q, d), d, k)
  ELSE IF Len(q.bits) < k THEN DivLoop(DivStep(q, d), d, k)
  ELSE q

\* k quotient bits of r / d
LongDiv(r, d, k) == DivLoop([bits |-> <<>>, rem |-> r], d, k)

\* significand + 1 unit in the last place (all zeros when it carries out)
Increment(bits) ==
  LET zs == {i \in 1..Len(bits) : bits[i] = 0}
  IN  IF zs = {} THEN Zeros(Len(bits))
      ELSE LET z == CHOOSE i \in zs : \A j \in zs : j <= i
           IN  SubSeq(bits, 1, z - 1) \o <<1>> \o Zeros(Len(bits) - z)

\* n / d for ints n >= 0, d > 0: the quotient rounded to nearest, ties to even
TrueDiv(n, d) ==
  IF n = BigZero THEN FloatZero
  ELSE LET s    == Scale(n, d, 0)
           q    == LongDiv(s.n, s.d, MANT_DIG)
           c    == BigCmp(q.rem, s.d)
           up   == c > 0 \/ (c = 0 /\ q.bits[MANT_DIG] = 1)
           inc  == Increment(q.bits)
       IN  IF ~up THEN [man |-> q.bits, exp |-> s.e]
           ELSE IF inc[1] = 0
                THEN [man |-> <<1>> \o SubSeq(inc, 1, MANT_DIG - 1), exp |-> s.e + 1]
                ELSE [man |-> inc, exp |-> s.e]

\* significands compared as integers
ManLess(a, b) ==
  LET diff == {i \in 1..MANT_DIG : a[i] # b[i]}
  IN  diff # {} /\ LET m == CHOOSE i \in diff : \A j \in diff : i <= j
                   IN  a[m] < b[m]

\* x < y for non-negative floats
FloatLess(x, y) ==
  IF IsZero(y) THEN FALSE
  ELSE IF IsZero(x) THEN TRUE
  ELSE IF x.exp # y.exp THEN x.exp < y.exp
  ELSE ManLess(x.man, y.man)


(***************************************************************************)
(* Python values.  Strings that the code inspects are sequences of         *)
(* one-character strings.  None is the empty sequence: the code only tests *)
(* the values it gets from dict.get / getenv for truthiness, where None    *)
(* and the empty string or list behave alike.  A dict is a function; a     *)
(* missing key is a key outside its domain.                                *)
(***************************************************************************)
None == <<>>

Truthy(x) == x # <<>>

Get(d, k, default) == IF k \in DOMAIN d THEN d[k] ELSE default

Upper == <<"A", "B", "C", "D", "E", "F", "G", "H", "I", "J", "K", "L", "M",
           "N", "O", "P", "Q", "R", "S", "T", "U", "V", "W", "X", "Y", "Z">>

Lower == <<"a", "b", "c", "d", "e", "f", "g", "h", "i", "j", "k", "l", "m",
           "n", "o", "p", "q", "r", "s", "t", "u", "v", "w", "x", "y", "z">>

Whitespace == {" ", "\t", "\n", "\r"}

\* str.lower()
lower(s) ==
  [i \in 1..Len(s) |->
     IF \E k \in 1..26 : Upper[k] = s[i]
     THEN Lower[CHOOSE k \in 1..26 : Upper[k] = s[i]]
     ELSE s[i]]

\* str.strip()
strip(s) ==
  LET keep == {i \in 1..Len(s) : s[i] \notin Whitespace}
  IN  IF keep = {} THEN <<>>
      ELSE LET lo == CHOOSE i \in keep : \A j \in keep : i <= j
               hi == CHOOSE i \in keep : \A j \in keep : j <= i
           IN  SubSeq(s, lo, hi)

\* a Python int that fits a machine word, as a number
RECURSIVE BigToInt(_)
BigToInt(a) == IF a = <<>> THEN 0 ELSE a[1] + BASE * BigToInt(Tail(a))

\* does int(s) succeed: optional surrounding whitespace, optional sign, digits
IsIntLiteral(s) ==
  LET t == strip(s)
      u == IF t # <<>> /\ t[1] \in {"+", "-"} THEN Tail(t) ELSE t
  IN  u # <<>> /\ \A i \in 1..Len(u) : IsDigit(u[i])

\* int(s) for a signed literal, as a number
IntOfLiteral(s) ==
  LET t == strip(s)
      u == IF t[1] \in {"+", "-"} THEN Tail(t) ELSE t
  IN  IF t[1] = "-" THEN 0 - BigToInt(int(u)) ELSE BigToInt(int(u))

(***************************************************************************)
(* Configuration constants (src/app.py:16-19)                              *)
(***************************************************************************)
DEFAULT_CHAIN_ID == 1

USDT_DECIMALS == 6

ETH_DECIMALS == 18

(***************************************************************************)
(* get_api_key / get_chain_id.  secrets is [available, store]: when the    *)
(* secrets store cannot be read st.secrets.get raises and the bare except  *)
(* swallows it.  The result is <<"ok", value>> or <<"raise", message>>.    *)
(***************************************************************************)
get_api_key(secrets, environ) ==
  LET skey == IF secrets.available
              THEN Get(secrets.store, "ETHERSCAN_API_KEY_Reconciliation", None)
              ELSE None
      ekey == Get(environ, "ETHERSCAN_API_KEY_Reconciliation", None)
  IN  IF secrets.available /\ Truthy(skey) THEN <<"ok", skey>>
      ELSE IF ~Truthy(ekey) THEN <<"raise", "ETHERSCAN_API_KEY_Reconciliation not set">>
      ELSE <<"ok", ekey>>

\* a variant of get_chain_id that falls back to the default on a bad value
get_chain_id_lenient(secrets, environ) ==
  LET sval == IF secrets.available
              THEN Get(secrets.store, "ETHERSCAN_CHAIN_ID", None)
              ELSE None
      eval == Get(environ, "ETHERSCAN_CHAIN_ID", None)
  IN  IF secrets.available /\ Truthy(sval) /\ IsIntLiteral(sval)
        THEN <<"ok", IntOfLiteral(sval)>>
      ELSE IF ~Truthy(eval) THEN <<"ok", DEFAULT_CHAIN_ID>>
      ELSE IF IsIntLiteral(eval) THEN <<"ok", IntOfLiteral(eval)>>
      ELSE <<"ok", DEFAULT_CHAIN_ID>>

get_chain_id(secrets, environ) ==
  LET sval == IF secrets.available
              THEN Get(secrets.store, "ETHERSCAN_CHAIN_ID", None)
              ELSE None
      eval == Get(environ, "ETHERSCAN_CHAIN_ID", None)
  IN  IF secrets.available /\ Truthy(sval) /\ IsIntLiteral(sval)
        THEN <<"ok", IntOfLiteral(sval)>>
      ELSE IF ~Truthy(eval) THEN <<"ok", DEFAULT_CHAIN_ID>>
      ELSE IF IsIntLiteral(eval) THEN <<"ok", IntOfLiteral(eval)>>
      ELSE <<"raise", "ETHERSCAN_CHAIN_ID must be an integer.">>

(***************************************************************************)
(* datetime.fromtimestamp(ts, tz=timezone.utc).isoformat(): the civil UTC  *)
(* date and time of a unix timestamp ts >= 0, as the fields of the ISO     *)
(* string YYYY-MM-DDTHH:MM:SS+00:00.                                       *)
(***************************************************************************)
isoformat_utc(ts) ==
  LET z   == (ts \div 86400) + 719468
      era == z \div 146097
      doe == z - era * 146097
      yoe == (doe - (doe \div 1460) + (doe \div 36524) - (doe \div 146096)) \div 365
      doy == doe - (365 * yoe + (yoe \div 4) - (yoe \div 100))
      mp  == (5 * doy + 2) \div 153
      d   == doy - ((153 * mp + 2) \div 5) + 1
      m   == IF mp < 10 THEN mp + 3 ELSE mp - 9
      y   == yoe + era * 400 + (IF m <= 2 THEN 1 ELSE 0)
      sod == ts % 86400
  IN  <<y, m, d, sod \div 3600, (sod % 3600) \div 60, sod % 60, "+00:00">>

(***************************************************************************)
(* The body of _transform_and_filter for one item (lines 112-127).         *)
(***************************************************************************)
ZeroStr == <<"0">>

amount_of(item) == TrueDiv(int(Get(item, "value", ZeroStr)), BigPow10(USDT_DECIMALS))

transform(item) ==
  LET gas_price == int(Get(item, "gasPrice", ZeroStr))
      gas_used  == int(Get(item, "gasUsed", ZeroStr))
      ts        == BigToInt(int(Get(item, "timeStamp", ZeroStr)))
  IN  [from        |-> Get(item, "from", None),
       to          |-> Get(item, "to", None),
       amount_usdt |-> amount_of(item),
       tx_hash     |-> Get(item, "hash", None),
       timestamp   |-> isoformat_utc(ts),
       fee_eth     |-> TrueDiv(BigMul(gas_price, gas_used), BigPow10(ETH_DECIMALS))]

(***************************************************************************)
(* pandas: a DataFrame is its column names, in order, and its rows; a row  *)
(* is a function from column name to value.  The Chinese column labels of  *)
(* the source are written by their ASCII parts: "Time" for the time, "From"*)
(* and "To" for the parties, "USDT" for the amount, "Fee_ETH" for the fee, *)
(* "TxHash" for the hash, "Time_datetime" for the parsed time.             *)
(***************************************************************************)
Range(f) == {f[i] : i \in DOMAIN f}

RecordColumns == <<"from", "to", "amount_usdt", "tx_hash", "timestamp", "fee_eth">>

DisplayColumns == <<"Time", "From", "To", "USDT", "Fee_ETH", "TxHash">>

\* the rename mapping of lines 137-144 and 322-329
Renamed(c) ==
  CASE c = "from"        -> "From"
    [] c = "to"          -> "To"
    [] c = "amount_usdt" -> "USDT"
    [] c = "tx_hash"     -> "TxHash"
    [] c = "timestamp"   -> "Time"
    [] c = "fee_eth"     -> "Fee_ETH"
    [] OTHER             -> c

\* pd.DataFrame(records)
DataFrame(recs) == [columns |-> RecordColumns, rows |-> recs]

\* df.rename(columns=..., inplace=True)
rename(df) ==
  [columns |-> [i \in 1..Len(df.columns) |-> Renamed(df.columns[i])],
   rows    |-> [i \in 1..Len(df.rows) |->
                  [c \in {Renamed(k) : k \in Range(df.columns)} |->
                     df.rows[i][CHOOSE k \in Range(df.columns) : Renamed(k) = c]]]]

\* df[[...]]: a new frame with the chosen columns
select(df, cols) ==
  [columns |-> cols,
   rows    |-> [i \in 1..Len(df.rows) |-> [c \in Range(cols) |-> df.rows[i][c]]]]

\* df[name] = values: the frame itself gets a further column
set_column(df, name, values) ==
  [columns |-> IF name \in Range(df.columns) THEN df.columns
               ELSE Append(df.columns, name),
   rows    |-> [i \in 1..Len(df.rows) |->
                  [c \in Range(df.columns) \cup {name} |->
                     IF c = name THEN values[i] ELSE df.rows[i][c]]]]

\* lines 320-330
display_frame(recs) == select(rename(DataFrame(recs)), DisplayColumns)

\* generate_excel_report: the sheet written to the byte buffer
generate_excel_report(recs) ==
  IF recs = <<>> THEN <<"raise", "No records to export.">>
  ELSE LET df == select(rename(DataFrame(recs)), DisplayColumns)
       IN  <<"ok", [sheet_name |-> "USDT_Transfers",
                    header     |-> df.columns,
                    rows       |-> [i \in 1..Len(df.rows) |->
                                      [j \in 1..Len(df.columns) |->
                                         df.rows[i][df.columns[j]]]]]>>

\* create_fund_flow_chart: the groups of the two bar charts.  Every group
\* is charted when there are at most top_n of them; the sums and the order
\* of the bars are presentation and are left out.  df is only read.
create_fund_flow_chart(df, top_n) ==
  [df  |-> df,
   fig |-> [receivers |-> {df.rows[i]["To"] : i \in 1..Len(df.rows)},
            senders   |-> {df.rows[i]["From"] : i \in 1..Len(df.rows)}]]

\* pd.to_datetime of an ISO string: the date and time without the offset
to_datetime(iso) == SubSeq(iso, 1, 6)

\* lexicographic order of two tuples of numbers of the same length
TupleLess(a, b) ==
  LET diff == {i \in 1..Len(a) : a[i] # b[i]}
  IN  diff # {} /\ LET m == CHOOSE i \in diff : \A j \in diff : i <= j
                   IN  a[m] < b[m]

RECURSIVE insert_sorted(_, _)
insert_sorted(sorted, row) ==
  IF sorted = <<>> THEN <<row>>
  ELSE IF TupleLess(row["Time_datetime"], sorted[1]["Time_datetime"])
       THEN <<row>> \o sorted
       ELSE <<sorted[1]>> \o insert_sorted(Tail(sorted), row)

\* df.sort_values('Time_datetime'), rows of equal time in their given order
RECURSIVE sort_values(_)
sort_values(rows) ==
  IF rows = <<>> THEN <<>>
  ELSE insert_sorted(sort_values(SubSeq(rows, 1, Len(rows) - 1)), rows[Len(rows)])

\* create_fee_fluctuation_chart: line 215 assigns a column of df itself
create_fee_fluctuation_chart(df) ==
  LET df1       == set_column(df, "Time_datetime",
                              [i \in 1..Len(df.rows) |-> to_datetime(df.rows[i]["Time"])])
      df_sorted == sort_values(df1.rows)
  IN  [df  |-> df1,
       fig |-> [x |-> [i \in 1..Len(df_sorted) |-> df_sorted[i]["Time_datetime"]],
                y |-> [i \in 1..Len(df_sorted) |-> df_sorted[i]["Fee_ETH"]]]]

(***************************************************************************)
(* The Etherscan envelope as fetch_usdt_transfers reads it.                *)
(***************************************************************************)
\* the values of ("1", 1, True), each with its type
Success == {<<"str", "1">>, <<"int", "1">>, <<"bool", "True">>}

NoRecordsFound == <<"n", "o", " ", "r", "e", "c", "o", "r", "d", "s", " ", "f", "o", "u", "n", "d">>

UnknownError == <<"u", "n", "k", "n", "o", "w", "n", " ", "e", "r", "r", "o", "r">>

\* x or default
Or(x, default) == IF Truthy(x) THEN x ELSE default

\* a variant of classify that ends the loop on a transport failure
classify_http_break(r) ==
  IF r.status_code # 200 THEN [do |-> "break", items |-> <<>>]
  ELSE LET status  == Get(r.payload, "status", None)
           message == Or(Get(r.payload, "message", None), UnknownError)
           result  == Or(Get(r.payload, "result", None), <<>>)
       IN  IF status \notin Success
           THEN IF strip(lower(message)) = NoRecordsFound
                THEN [do |-> "break", items |-> <<>>]
                ELSE [do |-> "raise", items |-> <<>>]
           ELSE IF result = <<>> THEN [do |-> "break", items |-> <<>>]
           ELSE [do |-> "page", items |-> result]

\* a variant of classify that compares the message as it came
classify_exact_message(r) ==
  IF r.status_code # 200 THEN [do |-> "raise", items |-> <<>>]
  ELSE LET status  == Get(r.payload, "status", None)
           message == Or(Get(r.payload, "message", None), UnknownError)
           result  == Or(Get(r.payload, "result", None), <<>>)
       IN  IF status \notin Success
           THEN IF message = NoRecordsFound
                THEN [do |-> "break", items |-> <<>>]
                ELSE [do |-> "raise", items |-> <<>>]
           ELSE IF result = <<>> THEN [do |-> "break", items |-> <<>>]
           ELSE [do |-> "page", items |-> result]

\* what one response makes the page loop do (lines 89-104):
\* "raise", "break" before the page is used, or "page" with the raw items
classify(r) ==
  IF r.status_code # 200 THEN [do |-> "raise", items |-> <<>>]
  ELSE LET status  == Get(r.payload, "status", None)
           message == Or(Get(r.payload, "message", None), UnknownError)
           result  == Or(Get(r.payload, "result", None), <<>>)
       IN  IF status \notin Success
           THEN IF strip(lower(message)) = NoRecordsFound
                THEN [do |-> "break", items |-> <<>>]
                ELSE [do |-> "raise", items |-> <<>>]
           ELSE IF result = <<>> THEN [do |-> "break", items |-> <<>>]
           ELSE [do |-> "page", items |-> result]

(***************************************************************************)
(* Bounds and input sets                                                   *)
(***************************************************************************)
MaxPages == 3

MaxPageSize == 2

KEY_NAME == "ETHERSCAN_API_KEY_Reconciliation"

CHAIN_NAME == "ETHERSCAN_CHAIN_ID"

\* marks a key that a store does not hold
Absent == <<"<absent>">>

\* the dict with the two settings, each present or absent
Settings(key, chain) ==
  [n \in (IF key = Absent THEN {} ELSE {KEY_NAME})
         \cup (IF chain = Absent THEN {} ELSE {CHAIN_NAME}) |->
     IF n = KEY_NAME THEN key ELSE chain]

NoSecrets == [available |-> FALSE, store |-> Settings(Absent, Absent)]

\* every secrets store and environment of the configuration study
AllSecrets ==
  {NoSecrets} \cup
  {[available |-> TRUE, store |-> Settings(k, c)] :
     k \in {Absent, <<>>, <<"K", "S">>},
     c \in {Absent, <<>>, <<"5">>, <<"a", "b", "c">>}}

AllEnvirons ==
  {Settings(k, c) :
     k \in {Absent, <<>>, <<"K", "E">>},
     c \in {Absent, <<>>, <<"7">>, <<" ", "1", "2", " ">>, <<"-", "3">>, <<"x", "1">>}}

\* the few configurations of the fetch study
FewSecrets == {NoSecrets}

FewEnvirons ==
  {Settings(Absent, Absent),
   Settings(<<"K", "E">>, <<"x", "1">>),
   Settings(<<"K", "E">>, <<"7">>)}

\* the values of the minimum-amount widget: 0.0, 1.5 and 2.0
MinUsdtChoices ==
  {FloatZero,
   TrueDiv(BigFromInt(3), BigFromInt(2)),
   TrueDiv(BigFromInt(2), BigFromInt(1))}

\* raw items of the API: 1.5 USDT and 0.000123 USDT
ItemA ==
  [from |-> "0xaa", to |-> "0xbb", value |-> <<"1", "5", "0", "0", "0", "0", "0">>,
   hash |-> "0x01", timeStamp |-> <<"1", "7", "0", "0", "0", "0", "0", "0", "0", "0">>,
   gasPrice |-> <<"2", "0", "0", "0", "0", "0", "0", "0", "0", "0", "0">>, gasUsed |-> <<"2", "1", "0", "0", "0">>]

ItemB ==
  [from |-> "0xbb", to |-> "0xcc", value |-> <<"1", "2", "3">>,
   hash |-> "0x02", timeStamp |-> <<"1", "6", "9", "9", "9", "9", "9", "0", "0", "0">>,
   gasPrice |-> <<"3", "1", "0", "0", "0", "0", "0", "0", "0", "0", "0">>, gasUsed |-> <<"6", "5", "0", "0", "0">>]

RawItems == {ItemA, ItemB}

\* transform is a pure function of the item: its values on the items the
\* API can return, computed once
Transformed == {<<it, transform(it)>> : it \in RawItems}

record_of(item) ==
  IF item \in RawItems THEN (CHOOSE p \in Transformed : p[1] = item)[2]
  ELSE transform(item)

\* a variant of skipped that also drops an amount equal to the minimum
skipped_equal(item, min_val) ==
  min_val # None /\ ~FloatLess(min_val[1], record_of(item).amount_usdt)

\* the test of line 114: the item is skipped
skipped(item, min_val) ==
  min_val # None /\ FloatLess(record_of(item).amount_usdt, min_val[1])

\* _transform_and_filter: one record per raw item whose amount is not below
\* min_value, in the order of the items
RECURSIVE transform_and_filter(_, _)
transform_and_filter(items, min_val) ==
  IF items = <<>> THEN <<>>
  ELSE IF skipped(items[1], min_val)
       THEN transform_and_filter(Tail(items), min_val)
       ELSE <<record_of(items[1])>> \o transform_and_filter(Tail(items), min_val)

SeqsUpTo(S, n) == UNION {[1..k -> S] : k \in 0..n}

\* the pages the API may answer to a request of page_size items
Pages(page_size) ==
  SeqsUpTo(RawItems, page_size) \cup {[i \in 1..(page_size + 1) |-> ItemA]}

FullPage(page_size) == [i \in 1..page_size |-> ItemA]

MsgOK == <<"O", "K">>

FailMessages ==
  {<<"N", "o", " ", "r", "e", "c", "o", "r", "d", "s", " ", "f", "o", "u", "n", "d">>,
   <<" ", " ", "N", "O", " ", "R", "E", "C", "O", "R", "D", "S", " ", "F", "O", "U", "N", "D", " ", "\n">>,
   <<"n", "o", " ", "r", "e", "c", "o", "r", "d", "s", " ", "f", "o", "u", "n", "d">>,
   <<"N", "o", " ", "r", "e", "c", "o", "r", "d", "s", " ", "f", "o", "u", "n", "d", ".">>,
   <<"N", "O", "T", "O", "K">>,
   <<"M", "a", "x", " ", "r", "a", "t", "e", " ", "l", "i", "m", "i", "t", " ", "r", "e", "a", "c", "h", "e", "d">>,
   <<>>}

Responses(page_size) ==
  \* transport failures
  {[status_code |-> 500,
    payload |-> [status |-> <<"str", "1">>, message |-> MsgOK,
                 result |-> FullPage(page_size)]],
   [status_code |-> 429,
    payload |-> [status |-> <<"str", "0">>, message |-> NoRecordsFound,
                 result |-> <<>>]]}
  \cup
  \* success envelopes
  {[status_code |-> 200,
    payload |-> [status |-> st, message |-> MsgOK, result |-> p]] :
     st \in Success, p \in Pages(page_size)}
  \cup
  {[status_code |-> 200,
    payload |-> [status |-> <<"str", "1">>, message |-> NoRecordsFound, result |-> p]] :
     p \in Pages(page_size)}
  \cup
  {[status_code |-> 200, payload |-> [status |-> <<"str", "1">>, message |-> MsgOK]]}
  \cup
  \* failure envelopes
  {[status_code |-> 200,
    payload |-> [status |-> st, message |-> m, result |-> r]] :
     st \in {<<"str", "0">>, <<"int", "0">>}, m \in FailMessages,
     r \in {<<>>, FullPage(page_size)}}
  \cup
  {[status_code |-> 200, payload |-> [status |-> <<"str", "0">>]],
   [status_code |-> 200, payload |-> [message |-> NoRecordsFound]]}

(***************************************************************************)
(* State                                                                   *)
(***************************************************************************)
VARIABLES
  secrets,      \* st.secrets
  environ,      \* os.environ
  api_key,      \* module level api_key
  chain_id,     \* module level chain_id
  min_usdt,     \* the minimum-amount widget
  max_pages,    \* the page slider
  page_size,    \* page_size of fetch_usdt_transfers
  pc,           \* where the script run is
  page,         \* loop variable of fetch_usdt_transfers
  acc,          \* the list records inside fetch_usdt_transfers
  records,      \* records of the script, assigned when the fetch returns
  resp,         \* the last response
  consumed,     \* history: the raw pages handed to _transform_and_filter
  trace,        \* history: the HTTP requests and the sleeps, in order
  error,        \* which st.error was shown
  df_display,   \* the display frame
  excel_data,   \* the report bytes
  fig_flow,     \* the fund flow figure
  fig_fee       \* the fee figure

vars == <<secrets, environ, api_key, chain_id, min_usdt, max_pages, page_size,
          pc, page, acc, records, resp, consumed, trace, error, df_display,
          excel_data, fig_flow, fig_fee>>

\* min_value as the call site passes it (line 306)
min_value == IF FloatLess(FloatZero, min_usdt) THEN <<min_usdt>> ELSE None

NoFrame == [columns |-> <<>>, rows |-> <<>>]

\* a variant of extend that puts the new page in front
extend_front(list, filtered) == filtered \o list

\* line 102: records.extend(filtered)
extend(list, filtered) == list \o filtered

\* a variant of short_page that stops one item too late
short_page_late(items, size) == Len(items) < size - 1

\* a variant of short_page that counts the records left by the filter
short_page_filtered(items, size) == Len(transform_and_filter(items, min_value)) < size

\* line 103: the page was short, the loop ends after it
short_page(items, size) == Len(items) < size

\* the for loop of line 75 has a further page after this one
more_pages(p, last) == p < last

InitRun ==
  /\ api_key = None
  /\ chain_id = 0
  /\ pc = "config"
  /\ page = 0
  /\ acc = <<>>
  /\ records = <<>>
  /\ resp = None
  /\ consumed = <<>>
  /\ trace = <<>>
  /\ error = "none"
  /\ df_display = NoFrame
  /\ excel_data = None
  /\ fig_flow = None
  /\ fig_fee = None

Init ==
  /\ secrets \in FewSecrets
  /\ environ \in FewEnvirons
  /\ min_usdt \in MinUsdtChoices
  /\ max_pages \in 1..MaxPages
  /\ page_size \in 1..MaxPageSize
  /\ InitRun

\* every configuration, one page of one item
InitConfig ==
  /\ secrets \in AllSecrets
  /\ environ \in AllEnvirons
  /\ min_usdt = FloatZero
  /\ max_pages = 1
  /\ page_size = 1
  /\ InitRun

(***************************************************************************)
(* Actions                                                                 *)
(***************************************************************************)
\* lines 262-272: both lookups succeed
ConfigOk ==
  /\ pc = "config"
  /\ get_api_key(secrets, environ)[1] = "ok"
  /\ get_chain_id(secrets, environ)[1] = "ok"
  /\ api_key' = get_api_key(secrets, environ)[2]
  /\ chain_id' = get_chain_id(secrets, environ)[2]
  /\ pc' = "button"
  /\ UNCHANGED <<secrets, environ, min_usdt, max_pages, page_size, page, acc,
                 records, resp, consumed, trace, error, df_display, excel_data,
                 fig_flow, fig_fee>>

\* lines 265-272: a lookup raises EtherscanError, st.error and st.stop
ConfigError ==
  /\ pc = "config"
  /\ \/ get_api_key(secrets, environ)[1] = "raise"
     \/ get_chain_id(secrets, environ)[1] = "raise"
  /\ error' = "config"
  /\ pc' = "stopped"
  /\ UNCHANGED <<secrets, environ, api_key, chain_id, min_usdt, max_pages,
                 page_size, page, acc, records, resp, consumed, trace,
                 df_display, excel_data, fig_flow, fig_fee>>

\* line 300: the button is pressed, fetch_usdt_transfers starts (lines 74-75)
Click ==
  /\ pc = "button"
  /\ acc' = <<>>
  /\ page' = 1
  /\ pc' = "request"
  /\ UNCHANGED <<secrets, environ, api_key, chain_id, min_usdt, max_pages,
                 page_size, records, resp, consumed, trace, error, df_display,
                 excel_data, fig_flow, fig_fee>>

\* line 300: the button is not pressed, the script ends
NoClick ==
  /\ pc = "button"
  /\ pc' = "done"
  /\ UNCHANGED <<secrets, environ, api_key, chain_id, min_usdt, max_pages,
                 page_size, page, acc, records, resp, consumed, trace, error,
                 df_display, excel_data, fig_flow, fig_fee>>

\* lines 76-104: one request and what the loop body does with the response r
HttpGet(r) ==
  /\ pc = "request"
  /\ resp' = r
  /\ trace' = Append(trace, [op |-> "get", page |-> page, offset |-> page_size,
                             chainid |-> chain_id, apikey |-> api_key])
  /\ LET c        == classify(r)
         filtered == transform_and_filter(c.items, min_value)
     IN  CASE c.do = "raise" ->
                \* lines 90, 97 and 309-311
                /\ pc' = "stopped"
                /\ error' = "fetch"
                /\ acc' = <<>>
                /\ UNCHANGED <<records, consumed>>
           [] c.do = "break" ->
                \* lines 96, 100 and 106
                /\ pc' = "fetched"
                /\ records' = acc
                /\ UNCHANGED <<acc, consumed, error>>
           [] c.do = "page" /\ short_page(c.items, page_size) ->
                \* lines 101-104 and 106
                /\ pc' = "fetched"
                /\ acc' = extend(acc, filtered)
                /\ records' = extend(acc, filtered)
                /\ consumed' = Append(consumed, c.items)
                /\ UNCHANGED error
           [] OTHER ->
                \* lines 101-103
                /\ pc' = "sleep"
                /\ acc' = extend(acc, filtered)
                /\ consumed' = Append(consumed, c.items)
                /\ UNCHANGED <<records, error>>
  /\ UNCHANGED <<secrets, environ, api_key, chain_id, min_usdt, max_pages,
                 page_size, page, df_display, excel_data, fig_flow, fig_fee>>

\* line 105, then the loop head of line 75 or the return of line 106
Sleep ==
  /\ pc = "sleep"
  /\ trace' = Append(trace, [op |-> "sleep", page |-> page, offset |-> page_size,
                             chainid |-> chain_id, apikey |-> api_key])
  /\ IF more_pages(page, max_pages)
     THEN /\ page' = page + 1
          /\ pc' = "request"
          /\ UNCHANGED records
     ELSE /\ pc' = "fetched"
          /\ records' = acc
          /\ UNCHANGED page
  /\ UNCHANGED <<secrets, environ, api_key, chain_id, min_usdt, max_pages,
                 page_size, acc, resp, consumed, error, df_display, excel_data,
                 fig_flow, fig_fee>>

\* lines 313-330: nothing fetched stops the run, else the display frame
Prepare ==
  /\ pc = "fetched"
  /\ IF records = <<>>
     THEN /\ pc' = "stopped"
          /\ UNCHANGED df_display
     ELSE /\ pc' = "excel"
          /\ df_display' = display_frame(records)
  /\ UNCHANGED <<secrets, environ, api_key, chain_id, min_usdt, max_pages,
                 page_size, page, acc, records, resp, consumed, trace, error,
                 excel_data, fig_flow, fig_fee>>

\* lines 333-338
Excel ==
  /\ pc = "excel"
  /\ LET out == generate_excel_report(records)
     IN  IF out[1] = "raise"
         THEN /\ pc' = "stopped"
              /\ error' = "excel"
              /\ UNCHANGED excel_data
         ELSE /\ pc' = "flow_chart"
              /\ excel_data' = out[2]
              /\ UNCHANGED error
  /\ UNCHANGED <<secrets, environ, api_key, chain_id, min_usdt, max_pages,
                 page_size, page, acc, records, resp, consumed, trace,
                 df_display, fig_flow, fig_fee>>

\* lines 371-374
FundFlowChart ==
  /\ pc = "flow_chart"
  /\ LET out == create_fund_flow_chart(df_display, 10)
     IN  /\ df_display' = out.df
         /\ fig_flow' = out.fig
  /\ pc' = "fee_chart"
  /\ UNCHANGED <<secrets, environ, api_key, chain_id, min_usdt, max_pages,
                 page_size, page, acc, records, resp, consumed, trace, error,
                 excel_data, fig_fee>>

\* lines 377-380
FeeChart ==
  /\ pc = "fee_chart"
  /\ LET out == create_fee_fluctuation_chart(df_display)
     IN  /\ df_display' = out.df
         /\ fig_fee' = out.fig
  /\ pc' = "done"
  /\ UNCHANGED <<secrets, environ, api_key, chain_id, min_usdt, max_pages,
                 page_size, page, acc, records, resp, consumed, trace, error,
                 excel_data, fig_flow>>

Next ==
  \/ ConfigOk
  \/ ConfigError
  \/ Click
  \/ NoClick
  \/ \E r \in Responses(page_size) : HttpGet(r)
  \/ Sleep
  \/ Prepare
  \/ Excel
  \/ FundFlowChart
  \/ FeeChart

Spec == Init /\ [][Next]_vars

SpecConfig == InitConfig /\ [][Next]_vars


(***************************************************************************)
(* Vocabulary of the properties                                            *)
(***************************************************************************)
\* the HTTP requests made so far, in order
Gets == SelectSeq(trace, LAMBDA e : e.op = "get")

\* the page number of the last request, the one resp answers
RespPage == Gets[Len(Gets)].page

StatusOf(r) == Get(r.payload, "status", None)

\* the message as line 95 compares it
MessageOf(r) == strip(lower(Or(Get(r.payload, "message", None), UnknownError)))

ItemsOf(r) == Or(Get(r.payload, "result", None), <<>>)

\* a response that must fail the fetch
ErrorResponse(r) ==
  \/ r.status_code # 200
  \/ StatusOf(r) \notin Success /\ MessageOf(r) # NoRecordsFound

\* the end-of-data envelope
NoRecordsResponse(r) ==
  r.status_code = 200 /\ StatusOf(r) \notin Success /\ MessageOf(r) = NoRecordsFound

\* a full page of a successful response
FullResponse(r) ==
  r.status_code = 200 /\ StatusOf(r) \in Success /\ Len(ItemsOf(r)) >= page_size

RECURSIVE Flatten(_)
Flatten(pages) ==
  IF pages = <<>> THEN <<>> ELSE Flatten(SubSeq(pages, 1, Len(pages) - 1)) \o pages[Len(pages)]

\* the raw items of the consumed pages, in page order
RawConsumed == Flatten(consumed)

\* a raw item passes the filter
Passes(item) ==
  min_value = None \/ ~FloatLess(record_of(item).amount_usdt, min_usdt)

\* the raw items that pass the filter, in order
RawKept == SelectSeq(RawConsumed, Passes)

\* the records of the raw items that pass the filter, in order
KeptRecords == [i \in 1..Len(RawKept) |-> record_of(RawKept[i])]

\* fetch_usdt_transfers has returned normally
Returned ==
  /\ Gets # <<>>
  /\ error # "fetch"
  /\ pc \in {"fetched", "excel", "flow_chart", "fee_chart", "done", "stopped"}


(***************************************************************************)
(* Properties                                                              *)
(***************************************************************************)
\* C1: when the response to a page has a non-200 HTTP status, or a
\* non-success status with a message other than "no records found", the
\* fetch ends in the error outcome, the script gets no records (those of
\* the earlier pages included), and no request or sleep follows.
C1_ErrorDiscardsAll ==
  [][/\ (resp' # None /\ ErrorResponse(resp')) =>
          /\ pc' = "stopped"
          /\ error' = "fetch"
          /\ records' = <<>>
          /\ df_display' = NoFrame
     /\ (resp # None /\ ErrorResponse(resp)) =>
          /\ trace' = trace
          /\ records' = <<>>]_vars

\* an error on the second page, after a page whose records were accumulated
C1_Witness ==
  /\ resp # None
  /\ ErrorResponse(resp)
  /\ Len(Gets) = 2
  /\ KeptRecords # <<>>
  /\ records = <<>>
  /\ pc = "stopped"

\* C2 as stated: no request follows a page whose message is "no records
\* found", or that has no items, or fewer items than page_size, or that is
\* page max_pages; there are never more than max_pages requests.
C2_StopsAsStated ==
  /\ [][(/\ Gets # <<>>
         /\ \/ MessageOf(resp) = NoRecordsFound
            \/ Len(ItemsOf(resp)) = 0
            \/ Len(ItemsOf(resp)) < page_size
            \/ RespPage = max_pages)
        => Gets' = Gets]_vars
  /\ [](Len(Gets) <= max_pages)

\* C2 amended: the message "no records found" ends the paging when the
\* status of the page is not a success status; the other stop conditions
\* are as stated.
C2_Stops ==
  /\ [][(/\ Gets # <<>>
         /\ \/ StatusOf(resp) \notin Success /\ MessageOf(resp) = NoRecordsFound
            \/ Len(ItemsOf(resp)) = 0
            \/ Len(ItemsOf(resp)) < page_size
            \/ RespPage = max_pages)
        => Gets' = Gets]_vars
  /\ [](Len(Gets) <= max_pages)

\* the fetch ended on a short second page with a page of budget left
C2_Witness ==
  /\ pc = "fetched"
  /\ Len(Gets) = 2
  /\ max_pages > 2
  /\ resp.status_code = 200
  /\ StatusOf(resp) \in Success
  /\ Len(ItemsOf(resp)) > 0
  /\ Len(ItemsOf(resp)) < page_size

\* C3: a page with a non-success status and the message "no records found"
\* (any case, surrounding whitespace ignored) ends the fetch without error,
\* with exactly the records of the pages before it; on page 1 that is the
\* empty list after one request.
C3_NoRecordsIsEndOfData ==
  (Gets # <<>> /\ NoRecordsResponse(resp)) =>
     /\ pc \notin {"request", "sleep"}
     /\ error = "none"
     /\ Len(Gets) = RespPage
     /\ Len(consumed) = RespPage - 1
     /\ records = KeptRecords
     /\ RespPage = 1 => records = <<>> /\ Len(trace) = 1

\* the end-of-data message, in capitals, on the second page
C3_Witness ==
  /\ Gets # <<>>
  /\ NoRecordsResponse(resp)
  /\ Get(resp.payload, "message", None) # NoRecordsFound
  /\ RespPage = 2
  /\ records # <<>>
  /\ pc = "done"

C5_OrderPreserved ==
  Returned =>
    LET kept == RawKept
    IN  /\ Len(records) = Len(kept)
        /\ \A i \in 1..Len(records) :
             /\ records[i].tx_hash = kept[i].hash
             /\ records[i].from = kept[i].from
             /\ records[i].to = kept[i].to
             /\ records[i].amount_usdt = record_of(kept[i]).amount_usdt
        /\ (/\ Len(consumed) = 2
            /\ Len(consumed[1]) = page_size
            /\ Len(consumed[2]) < page_size
            /\ min_value = None)
           => /\ Len(Gets) = 2
              /\ Len(records) = page_size + Len(consumed[2])

\* two pages of different items, a full one and a short one, nothing filtered
C5_Witness ==
  /\ pc = "done"
  /\ min_value = None
  /\ page_size = 2
  /\ consumed = <<(<<ItemB, ItemA>>), (<<ItemB>>)>>
  /\ Len(records) = 3
  /\ Len(Gets) = 2


\* C6 as stated: each sleep comes after a page that is not the last allowed
\* one and is followed by another request.
C6_SleepOnlyBetweenRequests ==
  \A i \in 1..Len(trace) :
    trace[i].op = "sleep" =>
      /\ trace[i].page < max_pages
      /\ pc # "request" => (i < Len(trace) /\ trace[i + 1].op = "get")

\* C7 as stated: no chart builder changes the frame it is given, and the
\* exporter and the chart builders leave the fetched records as they are.
C7_ChartsLeaveInput ==
  [][/\ pc \in {"flow_chart", "fee_chart"} => df_display' = df_display
     /\ pc \in {"excel", "flow_chart", "fee_chart"} => records' = records]_vars

\* the configuration sources, as the claims speak of them
SecretOf(name) == IF secrets.available THEN Get(secrets.store, name, None) ELSE None

KeyFound == Truthy(SecretOf(KEY_NAME)) \/ Truthy(Get(environ, KEY_NAME, None))

\* the environment holds a chain id (an empty value counts as unset)
EnvChainSet == Truthy(Get(environ, CHAIN_NAME, None))

EnvChainInvalid == EnvChainSet /\ ~IsIntLiteral(environ[CHAIN_NAME])

ChainUnset == ~Truthy(SecretOf(CHAIN_NAME)) /\ ~EnvChainSet

SecretChainUsable ==
  Truthy(SecretOf(CHAIN_NAME)) /\ IsIntLiteral(SecretOf(CHAIN_NAME))

HaltedOnConfig == pc = "stopped" /\ error = "config" /\ trace = <<>>

\* C8 as stated: a missing API key, or a chain-id environment value that is
\* present and not an integer, halts the run with a configuration error
\* before any request; with the chain id unset in both sources the run
\* goes on with chain id 1.
C8_ConfigAsStated ==
  pc # "config" =>
    /\ (~KeyFound \/ EnvChainInvalid) => HaltedOnConfig
    /\ (KeyFound /\ ChainUnset) => (error # "config" /\ chain_id = DEFAULT_CHAIN_ID)

\* C8 amended: the chain-id environment value halts the run when it is
\* present and not an integer and the secrets store gave no integer chain
\* id (the store is unreadable, or its value is missing, empty or not an
\* integer); the rest is as stated.
C8_Config ==
  pc # "config" =>
    /\ (~KeyFound \/ (~SecretChainUsable /\ EnvChainInvalid)) => HaltedOnConfig
    /\ (KeyFound /\ ChainUnset) => (error # "config" /\ chain_id = DEFAULT_CHAIN_ID)

\* a key is there, the store holds a chain id that is not an integer and the
\* environment value is not an integer either: the run halted
C8_Witness ==
  /\ HaltedOnConfig
  /\ KeyFound
  /\ Truthy(SecretOf(CHAIN_NAME))
  /\ ~SecretChainUsable
  /\ EnvChainInvalid

\* the integer written by a sequence of bits, most significant first
RECURSIVE BitsToInt(_)
BitsToInt(b) ==
  IF Len(b) = 0 THEN 0
  ELSE IF Len(b) = 1 THEN b[1]
  ELSE LET h == Len(b) \div 2
       IN  BitsToInt(SubSeq(b, 1, h)) * 2 ^ (Len(b) - h) + BitsToInt(SubSeq(b, h + 1, Len(b)))

\* the significand of a float as an int
Significand(x) ==
  BigAdd(BigTimesPow2(BigFromInt(BitsToInt(SubSeq(x.man, 1, 26))), MANT_DIG - 26),
         BigFromInt(BitsToInt(SubSeq(x.man, 27, MANT_DIG))))

\* x * 10^k = n, for a float x and an int n, in exact arithmetic
TimesPow10Is(x, k, n) ==
  IF IsZero(x) THEN n = BigZero
  ELSE LET s == x.exp - (MANT_DIG - 1)
       IN  IF s >= 0
           THEN BigMul(BigTimesPow2(Significand(x), s), BigPow10(k)) = n
           ELSE BigMul(Significand(x), BigPow10(k)) = BigTimesPow2(n, 0 - s)

\* C9 as stated: the record of a raw item has amount * 10^6 = int(value) and
\* fee * 10^18 = int(gasPrice) * int(gasUsed) exactly, and the from, to and
\* hash of the item.
C9_ExactConversion ==
  (pc = "fetched" /\ min_value = None) =>
    \A i \in 1..Len(records) :
      LET item == RawConsumed[i]
      IN  /\ TimesPow10Is(records[i].amount_usdt, USDT_DECIMALS, int(item.value))
          /\ TimesPow10Is(records[i].fee_eth, ETH_DECIMALS,
                          BigMul(int(item.gasPrice), int(item.gasUsed)))
          /\ records[i].from = item.from
          /\ records[i].to = item.to
          /\ records[i].tx_hash = item.hash

\* C10: a further page is requested exactly when the last page was not page
\* max_pages and came back with HTTP 200, a success status and at least
\* page_size raw items, whatever the filter keeps of it; the pages are
\* requested as 1, 2, 3, ..., each once.
C10_ContinueOnRawPage ==
  /\ [](\A i \in 1..Len(Gets) : Gets[i].page = i)
  /\ [][Gets' # Gets =>
          /\ Len(Gets') = Len(Gets) + 1
          /\ Gets # <<>> => (FullResponse(resp) /\ RespPage < max_pages)]_vars
  /\ []((Gets # <<>> /\ FullResponse(resp) /\ RespPage < max_pages) =>
          \/ pc = "sleep" /\ page = RespPage
          \/ pc = "request" /\ page = RespPage + 1)
  /\ [][(pc = "sleep" /\ FullResponse(resp) /\ RespPage < max_pages) =>
          (pc' = "request" /\ page' = RespPage + 1)]_vars

\* a second request after a full page of which the filter kept nothing
C10_Witness ==
  /\ Len(Gets) = 2
  /\ min_value # None
  /\ Len(consumed) >= 1
  /\ Len(consumed[1]) >= page_size
  /\ transform_and_filter(consumed[1], min_value) = <<>>

====
